---- MODULE Spec2Model ----
(***************************************************************************)
(* Model of functions/watermark.js: the process-wide Sarabun font cache,   *)
(* the loader loadSarabunFont, the load started at module initialisation   *)
(* and the POST /addWatermark handler.  The handler is an async function:  *)
(* it runs atomically between two awaits, so there is one action per       *)
(* outcome of each await (font read, PDFDocument.load, embedFont, save).   *)
(*                                                                         *)
(* Numbers.  Lengths, font sizes and coordinates are held as integers in   *)
(* ticks of 1/Unit point, so that every "/ 2" of the placement code is     *)
(* exact.  Opacity is held in hundredths (0.2 is 20), rotation in degrees. *)
(***************************************************************************)
EXTENDS Integers, Sequences, FiniteSets, TLC

\* ------------------------------------------------------------- bounds
\* Requests sent to one process instance.
NumRequests == 2
\* Pages of an input document.
MaxPages == 2

\* ---------------------------------------------------------- constants
\* Ticks per PDF point (number representation, see above).
Unit == 4

defaultSize == 65
defaultOpacity == 20
defaultRotate == -45
defaultSizesubtitle == 40
xOffsetRotated == -20
yOffsetRotated == -30

\* defaultWatermarkOptions, lines 84-89.
defaultWatermarkOptions ==
    [size |-> defaultSize * Unit, opacity |-> defaultOpacity,
     rotate |-> defaultRotate, sizesubtitle |-> defaultSizesubtitle * Unit]

\* The content of the file at fontPath, as fs.readFile resolves it.
FontFile == [format |-> "ttf", path |-> "sarabun.ttf"]
\* The value of `let sarabunFontBytes;` before any assignment.
Undefined == [format |-> "undefined"]

\* ------------------------------------------------------ request bodies
EmptyBytes == [format |-> "empty"]
GarbageBytes == [format |-> "garbage"]
PdfBytes(pages) == [format |-> "pdf", pages |-> pages]

\* Buffer.from(bytes).toString('base64'), line 141.
ToBase64(bytes) == [encoding |-> "base64", bytes |-> bytes]
\* Buffer.from(s, 'base64'), line 78.
FromBase64(s) == s.bytes
\* The empty string is the only falsy string.
EmptyString == ToBase64(EmptyBytes)

A4 == [width |-> 595 * Unit, height |-> 842 * Unit]
Letter == [width |-> 612 * Unit, height |-> 792 * Unit]
PageSizes == {A4, Letter}

RECURSIVE SeqsUpTo(_, _)
SeqsUpTo(S, n) ==
    IF n = 0 THEN {<<>>}
    ELSE LET shorter == SeqsUpTo(S, n - 1)
         IN  shorter \cup {Append(s, e) : s \in shorter, e \in S}

Documents == {PdfBytes(p) : p \in SeqsUpTo(PageSizes, MaxPages) \ {<<>>}}

\* A JSON body is a function from the keys it carries to their values.
Fields(keys, values) == [k \in keys |-> values[k]]

OptionKeys == {"size", "opacity", "rotate", "sizesubtitle"}
\* The value a caller supplies for each option (none of them the default).
SuppliedOption ==
    [size |-> 30 * Unit, opacity |-> 50, rotate |-> 30, sizesubtitle |-> 12 * Unit]
OptionObjects == {Fields(ks, SuppliedOption) : ks \in SUBSET OptionKeys}

PdfValues == {EmptyString, ToBase64(GarbageBytes)} \cup {ToBase64(d) : d \in Documents}

\* Bodies of the placement specification: every combination of the fields.
AllBodies ==
    UNION {
      {Fields(ks, [pdfBase64 |-> p, firstName |-> fn, lastName |-> ln,
                   watermarkLine1 |-> w1, watermarkOptions |-> wo]) :
          p \in PdfValues, fn \in {"", "Jane"}, ln \in {"", "Doe"},
          w1 \in {"", "DRAFT"}, wo \in OptionObjects}
      : ks \in SUBSET {"pdfBase64", "firstName", "lastName",
                       "watermarkLine1", "watermarkOptions"}}

\* Bodies of the concurrency specification: the cases of pdfBase64.
FewBodies ==
    {Fields({}, <<>>),
     Fields({"firstName", "watermarkOptions"},
            [firstName |-> "Jane", watermarkOptions |-> SuppliedOption]),
     [pdfBase64 |-> ToBase64(GarbageBytes)]}
    \cup {[pdfBase64 |-> ToBase64(PdfBytes([i \in 1..n |-> A4])),
           firstName |-> "Jane", lastName |-> "Doe"] : n \in 1..MaxPages}

\* -------------------------------------------------------------- state
VARIABLES
    sarabunFontBytes,       \* line 25
    sarabunFontLoaded,      \* line 26
    initLoad,               \* the call of line 50: "reading", "loaded", "rejected"
    processAlive,           \* FALSE once the process has been terminated
    fontReads,              \* fs.readFile calls issued so far
    body,                   \* req.body of each request
    pc,                     \* where each request's handler stands
    pdfDoc,                 \* handler local, line 79
    embedArg,               \* the argument embedFont was called with, line 82
    customFont,             \* handler local, line 82
    finalWatermarkOptions,  \* handler local, line 90
    finalWatermarkLine1,    \* handler local, line 92
    finalWatermarkLine2,    \* handler local, line 93
    drawLog,                \* the page.drawText calls issued, in call order
    responses               \* what the handler sent on res, in order

vars == <<sarabunFontBytes, sarabunFontLoaded, initLoad, processAlive, fontReads,
          body, pc, pdfDoc, embedArg, customFont, finalWatermarkOptions,
          finalWatermarkLine1, finalWatermarkLine2, drawLog, responses>>

fontVars == <<sarabunFontBytes, sarabunFontLoaded>>
localVars == <<pdfDoc, embedArg, customFont, finalWatermarkOptions,
               finalWatermarkLine1, finalWatermarkLine2, drawLog>>

Requests == DOMAIN body

NoDoc == [pages |-> <<>>, parsed |-> FALSE]
NoFont == [embedded |-> FALSE, bytes |-> Undefined]
NoOptions == Fields({}, <<>>)

\* The state once the module has been evaluated (lines 1-51, 155): the cache is
\* empty, the read of line 50 is in flight, and the requests are yet to be
\* handled.
InitWith(bodies, n) ==
    /\ sarabunFontBytes = Undefined
    /\ sarabunFontLoaded = FALSE
    /\ initLoad = "reading"
    /\ processAlive = TRUE
    /\ fontReads = 1
    /\ body \in [1..n -> bodies]
    /\ pc = [r \in 1..n |-> "pending"]
    /\ pdfDoc = [r \in 1..n |-> NoDoc]
    /\ embedArg = [r \in 1..n |-> Undefined]
    /\ customFont = [r \in 1..n |-> NoFont]
    /\ finalWatermarkOptions = [r \in 1..n |-> NoOptions]
    /\ finalWatermarkLine1 = [r \in 1..n |-> ""]
    /\ finalWatermarkLine2 = [r \in 1..n |-> ""]
    /\ drawLog = [r \in 1..n |-> <<>>]
    /\ responses = [r \in 1..n |-> <<>>]

Init == InitWith(FewBodies, NumRequests)

\* ----------------------------------------------------- pure functions
Has(b, k) == k \in DOMAIN b

\* `v || ''` on an optional string field, line 93.
OrEmpty(b, k) == IF Has(b, k) /\ b[k] # "" THEN b[k] ELSE ""

\* `!pdfBase64`, line 73: the field is absent or the empty string.
MissingPdf(b) == ~Has(b, "pdfBase64") \/ b.pdfBase64 = EmptyString

\* Variant of MergeOptions with the spreads in the other order, so that the
\* defaults override what the caller supplied.
MergeOptions_DefaultsWin(defaults, supplied) ==
    [k \in DOMAIN defaults \cup DOMAIN supplied |->
        IF k \in DOMAIN defaults THEN defaults[k] ELSE supplied[k]]

\* { ...defaultWatermarkOptions, ...watermarkOptions }, line 90.
MergeOptions(defaults, supplied) ==
    [k \in DOMAIN defaults \cup DOMAIN supplied |->
        IF k \in DOMAIN supplied THEN supplied[k] ELSE defaults[k]]

FinalWatermarkOptions(b) ==
    MergeOptions(defaultWatermarkOptions,
                 IF Has(b, "watermarkOptions") THEN b.watermarkOptions ELSE NoOptions)

\* watermarkLine1 || 'CONFIDENTIAL', line 92.
FinalWatermarkLine1(b) ==
    IF Has(b, "watermarkLine1") /\ b.watermarkLine1 # ""
    THEN b.watermarkLine1
    ELSE "CONFIDENTIAL"

\* Variant of FinalWatermarkLine2 that joins only the names present, so that
\* no space is left when a name is missing.
FinalWatermarkLine2_Trimmed(b) ==
    IF OrEmpty(b, "firstName") = "" \/ OrEmpty(b, "lastName") = ""
    THEN OrEmpty(b, "firstName") \o OrEmpty(b, "lastName")
    ELSE OrEmpty(b, "firstName") \o " " \o OrEmpty(b, "lastName")

\* `${firstName || ''} ${lastName || ''}`, line 93.
FinalWatermarkLine2(b) == OrEmpty(b, "firstName") \o " " \o OrEmpty(b, "lastName")

\* degrees(rotateDegrees), line 102.
Degrees(angle) == [type |-> "degrees", angle |-> angle]

\* rgb(0.5, 0.5, 0.5) in hundredths, lines 120 and 136.
MediumGray == [red |-> 50, green |-> 50, blue |-> 50]

\* font.widthOfTextAtSize(text, size), line 104: the font's advance widths
\* scaled to the size; every glyph of the model's font advances half an em.
WidthOfTextAtSize(text, size) == (Len(text) * size) \div 2

\* Variant of PlaceWatermark that centres line2 on its own measured width
\* instead of anchoring it to line1's origin.
PlaceWatermark_CentersLine2(i, page, line1, line2, font, options) ==
    LET rotationObject == Degrees(options.rotate)
        line1Width == WidthOfTextAtSize(line1, options.size)
        line2Width == WidthOfTextAtSize(line2, options.sizesubtitle)
        line1DrawX_unrotated == (page.width \div 2) - (line1Width \div 2)
        line1DrawY_unrotated == (page.height \div 2) - (options.size \div 2)
    IN  << [page |-> i, text |-> line1,
            x |-> line1DrawX_unrotated, y |-> line1DrawY_unrotated,
            size |-> options.size, opacity |-> options.opacity,
            rotate |-> rotationObject, font |-> font, color |-> MediumGray],
           [page |-> i, text |-> line2,
            x |-> (page.width \div 2) - (line2Width \div 2),
            y |-> line1DrawY_unrotated + yOffsetRotated * Unit,
            size |-> options.sizesubtitle, opacity |-> options.opacity,
            rotate |-> rotationObject, font |-> font, color |-> MediumGray] >>

\* The body of the forEach callback, lines 99-137: the two drawText calls
\* issued against page number i.
PlaceWatermark(i, page, line1, line2, font, options) ==
    LET rotationObject == Degrees(options.rotate)
        line1Width == WidthOfTextAtSize(line1, options.size)
        line1Height == options.size
        pageCenterX == page.width \div 2
        pageCenterY == page.height \div 2
        line1DrawX_unrotated == pageCenterX - (line1Width \div 2)
        line1DrawY_unrotated == pageCenterY - (line1Height \div 2)
        line2DrawX == line1DrawX_unrotated + xOffsetRotated * Unit
        line2DrawY == line1DrawY_unrotated + yOffsetRotated * Unit
    IN  << [page |-> i, text |-> line1,
            x |-> line1DrawX_unrotated, y |-> line1DrawY_unrotated,
            size |-> options.size, opacity |-> options.opacity,
            rotate |-> rotationObject, font |-> font, color |-> MediumGray],
           [page |-> i, text |-> line2,
            x |-> line2DrawX, y |-> line2DrawY,
            size |-> options.sizesubtitle, opacity |-> options.opacity,
            rotate |-> rotationObject, font |-> font, color |-> MediumGray] >>

\* pdfDoc.getPages().forEach(...), line 98: the callback on pages 1..n in order.
RECURSIVE DrawPages(_, _, _, _, _, _)
DrawPages(pages, n, line1, line2, font, options) ==
    IF n = 0 THEN <<>>
    ELSE DrawPages(pages, n - 1, line1, line2, font, options)
         \o PlaceWatermark(n, pages[n], line1, line2, font, options)

\* PDFDocument.load(bytes), line 79: the document object of parseable bytes.
Parseable(bytes) == bytes.format = "pdf"
LoadDocument(bytes) == [pages |-> bytes.pages, parsed |-> TRUE]

\* pdfDoc.save(), line 140: the pages with what was drawn on each.
SaveDocument(doc, draws) ==
    [format |-> "pdf",
     pages |-> [i \in 1..Len(doc.pages) |->
                  [width |-> doc.pages[i].width, height |-> doc.pages[i].height,
                   content |-> SelectSeq(draws, LAMBDA d : d.page = i)]]]

\* ------------------------------------------------------------ responses
MissingInput == [status |-> 400, json |-> [error |-> "PDF data (pdfBase64) is required."]]
FontUnavailable(message) ==
    [status |-> 500, json |-> [error |-> "Failed to load Sarabun font: " \o message]]
DocumentProcessingFailure(message) ==
    [status |-> 500,
     json |-> [error |-> "Failed to generate watermarked PDF", details |-> message]]
Success(doc) ==
    [status |-> 200, json |-> [success |-> TRUE, watermarkedPdfBase64 |-> doc]]

\* res.status(..).json(..) / res.json(..) followed by return.
Respond(r, response) ==
    /\ responses' = [responses EXCEPT ![r] = Append(@, response)]
    /\ pc' = [pc EXCEPT ![r] = "done"]

\* ------------------------------------------------------ the font loader
\* loadSarabunFont up to its await, line 33: the read is issued.
IssueFontRead == fontReads' = fontReads + 1

\* loadSarabunFont after a read that resolved, lines 33-35.
FontLoaded ==
    /\ sarabunFontBytes' = FontFile
    /\ sarabunFontLoaded' = TRUE

\* Variant of FontLoadFailed that resets the cache in the catch block.
FontLoadFailed_ClearsCache ==
    /\ sarabunFontBytes' = Undefined
    /\ sarabunFontLoaded' = FALSE

\* loadSarabunFont after a read that rejected, lines 36-42: nothing is
\* assigned and the error is rethrown.
FontLoadFailed == UNCHANGED fontVars

\* The load of lines 49-51 resolves.
InitLoadOk ==
    /\ processAlive
    /\ initLoad = "reading"
    /\ initLoad' = "loaded"
    /\ FontLoaded
    /\ UNCHANGED <<processAlive, fontReads, body, pc, localVars, responses>>

\* The load of lines 49-51 rejects.  Line 50 neither awaits the promise nor
\* gives it a catch handler, so the rethrow of line 41 is an unhandled
\* rejection: the runtime either warns and goes on (Node before 15, or
\* --unhandled-rejections=warn) or terminates the process (the default since
\* Node 15, and what a function runtime's own handler does).
InitLoadFail ==
    /\ processAlive
    /\ initLoad = "reading"
    /\ initLoad' = "rejected"
    /\ FontLoadFailed
    /\ \E survives \in BOOLEAN : processAlive' = survives
    /\ UNCHANGED <<fontReads, body, pc, localVars, responses>>

\* ----------------------------------------------------------- the handler
\* Lines 65-79, run once the font check is passed: the body is destructured,
\* a missing pdfBase64 is answered 400, otherwise the bytes are decoded and
\* PDFDocument.load is awaited.
AfterFontCheck(r) ==
    IF MissingPdf(body[r])
    THEN Respond(r, MissingInput)
    ELSE /\ pc' = [pc EXCEPT ![r] = "load"]
         /\ UNCHANGED responses

\* Variant of Handle that reads the font on every request, without looking
\* at the loaded flag.
Handle_AlwaysReads(r) ==
    /\ processAlive
    /\ pc[r] = "pending"
    /\ IssueFontRead
    /\ pc' = [pc EXCEPT ![r] = "readFont"]
    /\ UNCHANGED <<fontVars, initLoad, processAlive, body, localVars, responses>>

\* Lines 55-59 and, when the font is loaded, 65-79.
Handle(r) ==
    /\ processAlive
    /\ pc[r] = "pending"
    /\ IF ~sarabunFontLoaded
       THEN /\ IssueFontRead
            /\ pc' = [pc EXCEPT ![r] = "readFont"]
            /\ UNCHANGED responses
       ELSE /\ AfterFontCheck(r)
            /\ UNCHANGED fontReads
    /\ UNCHANGED <<fontVars, initLoad, processAlive, body, localVars>>

\* The read awaited at line 59 resolves: lines 33-35, then 65-79.
FontReadOk(r) ==
    /\ processAlive
    /\ pc[r] = "readFont"
    /\ FontLoaded
    /\ AfterFontCheck(r)
    /\ UNCHANGED <<initLoad, processAlive, fontReads, body, localVars>>

\* The read awaited at line 59 rejects: lines 36-42, then 60-62.
FontReadFail(r) ==
    /\ processAlive
    /\ pc[r] = "readFont"
    /\ FontLoadFailed
    /\ Respond(r, FontUnavailable("ENOENT"))
    /\ UNCHANGED <<initLoad, processAlive, fontReads, body, localVars>>

\* PDFDocument.load resolves, lines 79-82: fontkit is registered and
\* embedFont is called with the cache's current content and awaited.
LoadOk(r) ==
    /\ processAlive
    /\ pc[r] = "load"
    /\ Parseable(FromBase64(body[r].pdfBase64))
    /\ pdfDoc' = [pdfDoc EXCEPT ![r] = LoadDocument(FromBase64(body[r].pdfBase64))]
    /\ embedArg' = [embedArg EXCEPT ![r] = sarabunFontBytes]
    /\ pc' = [pc EXCEPT ![r] = "embed"]
    /\ UNCHANGED <<fontVars, initLoad, processAlive, fontReads, body, customFont,
                   finalWatermarkOptions, finalWatermarkLine1, finalWatermarkLine2,
                   drawLog, responses>>

\* Variant of LoadFail with the load outside the try region: the handler's
\* promise rejects, nothing is sent and the rejection stops the process.
LoadFail_Uncaught(r) ==
    /\ processAlive
    /\ pc[r] = "load"
    /\ ~Parseable(FromBase64(body[r].pdfBase64))
    /\ pc' = [pc EXCEPT ![r] = "done"]
    /\ processAlive' = FALSE
    /\ UNCHANGED <<fontVars, initLoad, fontReads, body, localVars, responses>>

\* PDFDocument.load rejects, lines 79 and 148-151.
LoadFail(r) ==
    /\ processAlive
    /\ pc[r] = "load"
    /\ ~Parseable(FromBase64(body[r].pdfBase64))
    /\ Respond(r, DocumentProcessingFailure("Failed to parse PDF document"))
    /\ UNCHANGED <<fontVars, initLoad, processAlive, fontReads, body, localVars>>

\* Lines 82-96 once embedFont has resolved: the handler's locals.
Resolve(r) ==
    /\ customFont' = [customFont EXCEPT ![r] = [embedded |-> TRUE, bytes |-> embedArg[r]]]
    /\ finalWatermarkOptions' =
           [finalWatermarkOptions EXCEPT ![r] = FinalWatermarkOptions(body[r])]
    /\ finalWatermarkLine1' =
           [finalWatermarkLine1 EXCEPT ![r] = FinalWatermarkLine1(body[r])]
    /\ finalWatermarkLine2' =
           [finalWatermarkLine2 EXCEPT ![r] = FinalWatermarkLine2(body[r])]

\* Variant of AllDraws whose loop stops one page early.
AllDraws_SkipsLastPage(r) ==
    DrawPages(pdfDoc[r].pages, Len(pdfDoc[r].pages) - 1,
              FinalWatermarkLine1(body[r]), FinalWatermarkLine2(body[r]),
              [embedded |-> TRUE, bytes |-> embedArg[r]],
              FinalWatermarkOptions(body[r]))

\* Every drawText call of lines 98-138, in call order.
AllDraws(r) ==
    DrawPages(pdfDoc[r].pages, Len(pdfDoc[r].pages),
              FinalWatermarkLine1(body[r]), FinalWatermarkLine2(body[r]),
              [embedded |-> TRUE, bytes |-> embedArg[r]],
              FinalWatermarkOptions(body[r]))

\* embedFont resolves and every page is drawn, lines 82-140: save is awaited.
EmbedOk(r) ==
    /\ processAlive
    /\ pc[r] = "embed"
    /\ embedArg[r] # Undefined
    /\ Resolve(r)
    /\ drawLog' = [drawLog EXCEPT ![r] = AllDraws(r)]
    /\ pc' = [pc EXCEPT ![r] = "save"]
    /\ UNCHANGED <<fontVars, initLoad, processAlive, fontReads, body, pdfDoc,
                   embedArg, responses>>

\* Variant of DrawThrows that catches the exception inside the loop and goes
\* on to save what was drawn.
DrawThrows_Swallowed(r) ==
    /\ processAlive
    /\ pc[r] = "embed"
    /\ embedArg[r] # Undefined
    /\ Resolve(r)
    /\ \E k \in 0..(Len(AllDraws(r)) - 1) :
           drawLog' = [drawLog EXCEPT ![r] = SubSeq(AllDraws(r), 1, k)]
    /\ pc' = [pc EXCEPT ![r] = "save"]
    /\ UNCHANGED <<fontVars, initLoad, processAlive, fontReads, body, pdfDoc,
                   embedArg, responses>>

\* embedFont resolves and the library throws in the loop of lines 98-138
\* after k drawText calls, then lines 148-151.
DrawThrows(r) ==
    /\ processAlive
    /\ pc[r] = "embed"
    /\ embedArg[r] # Undefined
    /\ Resolve(r)
    /\ \E k \in 0..(Len(AllDraws(r)) - 1) :
           drawLog' = [drawLog EXCEPT ![r] = SubSeq(AllDraws(r), 1, k)]
    /\ Respond(r, DocumentProcessingFailure("drawText failed"))
    /\ UNCHANGED <<fontVars, initLoad, processAlive, fontReads, body, pdfDoc, embedArg>>

\* embedFont rejects, lines 82 and 148-151: always when it was handed
\* undefined, and possibly on bytes fontkit cannot read.
EmbedFail(r) ==
    /\ processAlive
    /\ pc[r] = "embed"
    /\ Respond(r, DocumentProcessingFailure("embedFont failed"))
    /\ UNCHANGED <<fontVars, initLoad, processAlive, fontReads, body, localVars>>

\* save resolves, lines 140-146.
SaveOk(r) ==
    /\ processAlive
    /\ pc[r] = "save"
    /\ Respond(r, Success(ToBase64(SaveDocument(pdfDoc[r], drawLog[r]))))
    /\ UNCHANGED <<fontVars, initLoad, processAlive, fontReads, body, localVars>>

\* save rejects, lines 140 and 148-151.
SaveFail(r) ==
    /\ processAlive
    /\ pc[r] = "save"
    /\ Respond(r, DocumentProcessingFailure("save failed"))
    /\ UNCHANGED <<fontVars, initLoad, processAlive, fontReads, body, localVars>>

Next ==
    \/ InitLoadOk
    \/ InitLoadFail
    \/ \E r \in Requests : Handle(r)
    \/ \E r \in Requests : FontReadOk(r)
    \/ \E r \in Requests : FontReadFail(r)
    \/ \E r \in Requests : LoadOk(r)
    \/ \E r \in Requests : LoadFail(r)
    \/ \E r \in Requests : EmbedOk(r)
    \/ \E r \in Requests : DrawThrows(r)
    \/ \E r \in Requests : EmbedFail(r)
    \/ \E r \in Requests : SaveOk(r)
    \/ \E r \in Requests : SaveFail(r)

Spec == Init /\ [][Next]_vars

\* The placement specification: one request, its body drawn from every
\* combination of the fields.
InitPlacement == InitWith(AllBodies, 1)
SpecPlacement == InitPlacement /\ [][Next]_vars

\* ================================================================ claims
Answered(r) == responses[r] # <<>>
\* The handler's locals of lines 82-96 are set.
Resolved(r) == customFont[r].embedded
Succeeded(r) ==
    /\ Len(responses[r]) = 1
    /\ "watermarkedPdfBase64" \in DOMAIN responses[r][1].json
Unparseable(r) ==
    /\ ~MissingPdf(body[r])
    /\ ~Parseable(FromBase64(body[r].pdfBase64))

\* C1: a request whose pdfBase64 is missing is always answered 400 with the
\* error 'PDF data (pdfBase64) is required.', whatever the state of the font
\* cache.
C1_MissingPdfAlways400 ==
    \A r \in Requests :
        MissingPdf(body[r]) /\ Answered(r) => responses[r] = <<MissingInput>>

\* C2: a failed font read leaves no partial cache and no permanent failure
\* state: after any failed read, the one started at module initialisation
\* included, the process is running and a request not yet handled can still
\* be handled (and retries the read).
C2_NoPermanentFailure ==
    (initLoad = "rejected" \/ \E r \in Requests : responses[r] = <<FontUnavailable("ENOENT")>>)
        => /\ ~sarabunFontLoaded => sarabunFontBytes = Undefined
           /\ \A r \in Requests : pc[r] = "pending" => ENABLED Handle(r)

\* C3: no partial results: a request is never answered twice, a handler that
\* has returned has answered exactly once, a response that carries document
\* bytes is a 200 with success: true sent after the document was parsed, the
\* font embedded, every page given its two lines and the document saved, and
\* any other response is an error without document bytes.
C3_NoPartialResults ==
    \A r \in Requests :
        /\ Len(responses[r]) <= 1
        /\ pc[r] = "done" <=> Len(responses[r]) = 1
        /\ \A i \in 1..Len(responses[r]) :
              LET response == responses[r][i]
              IN  IF "watermarkedPdfBase64" \in DOMAIN response.json
                  THEN /\ response.status = 200
                       /\ response.json.success = TRUE
                       /\ "error" \notin DOMAIN response.json
                       /\ pdfDoc[r].parsed
                       /\ customFont[r].embedded
                       /\ Len(drawLog[r]) = 2 * Len(pdfDoc[r].pages)
                       /\ FromBase64(response.json.watermarkedPdfBase64).format = "pdf"
                       /\ \A p \in 1..Len(pdfDoc[r].pages) :
                             Len(FromBase64(response.json.watermarkedPdfBase64)
                                   .pages[p].content) = 2
                  ELSE /\ response.status \in {400, 500}
                       /\ "error" \in DOMAIN response.json
                       /\ "success" \notin DOMAIN response.json
C3_Witness ==
    \E r, q \in Requests :
        /\ Succeeded(r)
        /\ Len(pdfDoc[r].pages) = MaxPages
        /\ responses[q] = <<DocumentProcessingFailure("drawText failed")>>
        /\ Len(drawLog[q]) = 1

\* C4, as stated: a request whose pdfBase64 is present but not a parseable
\* PDF always ends with the 500 DocumentProcessingFailure response.
C4_UnparseableAlwaysProcessingFailure ==
    \A r \in Requests :
        Unparseable(r) /\ pc[r] = "done" =>
            responses[r] = <<DocumentProcessingFailure("Failed to parse PDF document")>>

\* C4, amended: such a request is answered 500 FontUnavailable when its own
\* font read fails; once it is past the font check its handler can only end
\* with the 500 DocumentProcessingFailure response, and that step neither
\* stops the process nor touches the font cache or another request.
C4_UnparseableEndsInError ==
    /\ [](\A r \in Requests :
            Unparseable(r) =>
                /\ pc[r] \in {"pending", "readFont", "load", "done"}
                /\ pc[r] = "done" =>
                      responses[r] \in
                          {<<DocumentProcessingFailure("Failed to parse PDF document")>>,
                           <<FontUnavailable("ENOENT")>>})
    /\ [][\A r \in Requests :
            Unparseable(r) =>
                /\ pc[r] = "readFont" /\ pc'[r] = "done" =>
                      responses'[r] = <<FontUnavailable("ENOENT")>>
                /\ pc[r] = "load" /\ pc'[r] # "load" =>
                      /\ pc'[r] = "done"
                      /\ responses'[r] =
                            <<DocumentProcessingFailure("Failed to parse PDF document")>>
                      /\ processAlive'
                      /\ UNCHANGED fontVars
                      /\ \A q \in Requests \ {r} :
                            pc'[q] = pc[q] /\ responses'[q] = responses[q]]_vars
C4_Witness ==
    \E r, q \in Requests :
        /\ Unparseable(r)
        /\ responses[r] = <<DocumentProcessingFailure("Failed to parse PDF document")>>
        /\ processAlive
        /\ pc[q] = "embed"

\* C5: races between cold-start loads are benign: while the loaded flag is
\* true the cache holds the bytes of a read that succeeded, the flag never
\* goes back to false, cached bytes are never cleared or replaced, and
\* embedFont is never handed absent bytes.
C5_BenignLoadRaces ==
    /\ [](sarabunFontLoaded => sarabunFontBytes = FontFile)
    /\ [](\A r \in Requests :
            pc[r] \in {"embed", "save"} \/ Resolved(r) => embedArg[r] = FontFile)
    /\ [][sarabunFontLoaded => sarabunFontLoaded']_vars
    /\ [][sarabunFontBytes = FontFile => sarabunFontBytes' = FontFile]_vars
C5_Witness ==
    \E r, q \in Requests :
        /\ responses[r] = <<FontUnavailable("ENOENT")>>
        /\ fontReads = NumRequests + 1
        /\ initLoad = "rejected"
        /\ sarabunFontLoaded
        /\ Resolved(q)

\* C6: the font is served from the cache: once a load has succeeded no
\* handler issues another font read, and the font a request embeds is the
\* cached one.
C6_ReadOnceThenCached ==
    /\ [][sarabunFontLoaded => fontReads' = fontReads]_vars
    /\ [](\A r \in Requests : Resolved(r) => customFont[r].bytes = sarabunFontBytes)
C6_Witness ==
    /\ fontReads = 1
    /\ \A r \in Requests : Succeeded(r)

\* C7: on a successful request the placement sequence has run exactly once
\* per page, in page order: call 2p-1 draws line1 and call 2p draws line2 on
\* page p, and the response document has the pages of the input, each with
\* exactly those two lines.
C7_EveryPageOnceInOrder ==
    \A r \in Requests :
        Succeeded(r) =>
            LET input == FromBase64(body[r].pdfBase64)
                output == FromBase64(responses[r][1].json.watermarkedPdfBase64)
            IN  /\ Len(output.pages) = Len(input.pages)
                /\ Len(drawLog[r]) = 2 * Len(input.pages)
                /\ \A p \in 1..Len(input.pages) :
                      /\ output.pages[p].width = input.pages[p].width
                      /\ output.pages[p].height = input.pages[p].height
                      /\ drawLog[r][2 * p - 1].page = p
                      /\ drawLog[r][2 * p - 1].text = finalWatermarkLine1[r]
                      /\ drawLog[r][2 * p].page = p
                      /\ drawLog[r][2 * p].text = finalWatermarkLine2[r]
                      /\ output.pages[p].content =
                            <<drawLog[r][2 * p - 1], drawLog[r][2 * p]>>
C7_Witness ==
    \E r \in Requests :
        /\ Succeeded(r)
        /\ Len(FromBase64(responses[r][1].json.watermarkedPdfBase64).pages) = MaxPages

\* The watermarkOptions object of a body (nothing is spread from undefined).
SuppliedOptions(b) == IF Has(b, "watermarkOptions") THEN b.watermarkOptions ELSE NoOptions

\* C8: merging watermarkOptions with the defaults is field-independent: each
\* supplied field has the caller's value and each field not supplied has its
\* documented default: size 65, opacity 0.2, rotate -45, sizesubtitle 40.
C8_MergeIsFieldIndependent ==
    \A r \in Requests :
        Resolved(r) =>
            LET supplied == SuppliedOptions(body[r])
                final == finalWatermarkOptions[r]
            IN  /\ DOMAIN final = OptionKeys
                /\ \A k \in DOMAIN supplied : final[k] = supplied[k]
                /\ "size" \notin DOMAIN supplied => final.size = 65 * Unit
                /\ "opacity" \notin DOMAIN supplied => final.opacity = 20
                /\ "rotate" \notin DOMAIN supplied => final.rotate = -45
                /\ "sizesubtitle" \notin DOMAIN supplied => final.sizesubtitle = 40 * Unit
C8_Witness ==
    \E r \in Requests :
        /\ Resolved(r)
        /\ DOMAIN SuppliedOptions(body[r]) = {"opacity"}
        /\ finalWatermarkOptions[r] =
              [size |-> 65 * Unit, opacity |-> 50, rotate |-> -45, sizesubtitle |-> 40 * Unit]

\* C9: on every page line1 is drawn at (width/2 - line1Width/2, height/2 -
\* size/2) and line2 at that origin plus (-20, -30), whatever line2's text
\* and width, both with the same rotation and opacity.
C9_Line2FollowsLine1 ==
    \A r \in Requests :
        \A p \in 1..Len(pdfDoc[r].pages) :
            2 * p <= Len(drawLog[r]) =>
                LET line1 == drawLog[r][2 * p - 1]
                    line2 == drawLog[r][2 * p]
                    page == pdfDoc[r].pages[p]
                IN  /\ line1.size = finalWatermarkOptions[r].size
                    /\ 2 * line1.x = page.width - WidthOfTextAtSize(line1.text, line1.size)
                    /\ 2 * line1.y = page.height - line1.size
                    /\ line2.x = line1.x - 20 * Unit
                    /\ line2.y = line1.y - 30 * Unit
                    /\ line2.rotate = line1.rotate
                    /\ line2.opacity = line1.opacity
C9_Witness ==
    \E r \in Requests :
        /\ Succeeded(r)
        /\ Len(drawLog[r]) = 2 * MaxPages
        /\ drawLog[r][1].text = "CONFIDENTIAL"
        /\ drawLog[r][2].text = "Jane Doe"
        /\ drawLog[r][2].x = drawLog[r][1].x - 20 * Unit
        /\ pdfDoc[r].pages[1] # pdfDoc[r].pages[MaxPages]

\* The text a name field contributes to line2.
NameOrEmpty(b, k) == IF Has(b, k) THEN b[k] ELSE ""

\* C10, as stated: line1 is watermarkLine1 whenever it is supplied and
\* 'CONFIDENTIAL' otherwise; line2 is firstName, a space, lastName, an
\* omitted name being the empty string.
C10_Line1IsSuppliedValue ==
    \A r \in Requests :
        Resolved(r) =>
            /\ finalWatermarkLine1[r] =
                  IF Has(body[r], "watermarkLine1")
                  THEN body[r].watermarkLine1
                  ELSE "CONFIDENTIAL"
            /\ finalWatermarkLine2[r] =
                  NameOrEmpty(body[r], "firstName") \o " " \o NameOrEmpty(body[r], "lastName")

\* C10, amended: line1 is watermarkLine1 when it is supplied and not empty,
\* and 'CONFIDENTIAL' otherwise; line2 as stated; and the draw calls carry
\* these texts.
C10_TextsResolved ==
    \A r \in Requests :
        Resolved(r) =>
            /\ finalWatermarkLine1[r] =
                  IF Has(body[r], "watermarkLine1") /\ Len(body[r].watermarkLine1) > 0
                  THEN body[r].watermarkLine1
                  ELSE "CONFIDENTIAL"
            /\ finalWatermarkLine2[r] =
                  NameOrEmpty(body[r], "firstName") \o " " \o NameOrEmpty(body[r], "lastName")
            /\ \A k \in 1..Len(drawLog[r]) :
                  drawLog[r][k].text =
                      IF k % 2 = 1 THEN finalWatermarkLine1[r] ELSE finalWatermarkLine2[r]
C10_Witness ==
    \E r \in Requests :
        /\ Succeeded(r)
        /\ ~Has(body[r], "firstName")
        /\ ~Has(body[r], "lastName")
        /\ ~Has(body[r], "watermarkLine1")
        /\ drawLog[r][1].text = "CONFIDENTIAL"
        /\ drawLog[r][2].text = " "

====
